---- MODULE Spec2Model ----
(***************************************************************************)
(* A model of the EMLL compiler core, libraries/compiler/src/Compiler.cpp: *)
(* the Compiler base class (variable allocation, the CompileModel and      *)
(* CompileNode entry points, node type lookup, port type verification,     *)
(* Reset) and the ModelEx graph helpers (CollectInputNodes,                *)
(* CollectOutputNodes, CollectNodes, IsLeafNode).                          *)
(*                                                                         *)
(* Every member function is one atomic action: the class is used from one  *)
(* thread and no member function suspends.  What a call did is recorded in *)
(* the history variable ret, and the functions that are const (or static)  *)
(* are operators that the actions apply.                                   *)
(*                                                                         *)
(* Parts of the repository that Compiler.cpp uses but does not define      *)
(* (Compiler.h, the temp variable allocator, the type map, model::Model,   *)
(* model::Node, the backend's BeginMain/EndMain/Compile overrides) are     *)
(* modelled from the design document and are marked so where they appear.  *)
(***************************************************************************)
EXTENDS Naturals, Sequences, FiniteSets, Bags

VARIABLES
    _nodeTypes,   \* Compiler::_nodeTypes: the registered (type name, NodeType) pairs
    _inputs,      \* Compiler::_inputs: node pointers, as node ids of `model`
    _outputs,     \* Compiler::_outputs
    _globalVars,  \* Compiler::_globalVars (uint64_t; the bound MaxGlobal keeps
                  \* it far from 2^64, so the increment is not reduced)
    _tempVars,    \* Compiler::_tempVars: [next |-> slots minted, free |-> released slots]
    sessions,     \* the entry-point functions begun and not yet ended, innermost last
    model,        \* the model::Model last handed to CompileModel / the analyzer
    node,         \* the model::Node handed to GetNodeType / VerifyInputType
    live,         \* history: the bag of TempVar handles callers hold (allocated, not freed)
    highWater,    \* history: the greatest number of handles held at once
    globalLog,    \* history: the values AllocGlobal returned, in call order
    peak,         \* history: the greatest number of sessions open at once
    ret           \* history: the last call, its arguments and its outcome

vars == <<_nodeTypes, _inputs, _outputs, _globalVars, _tempVars, sessions,
          model, node, live, highWater, globalLog, peak, ret>>

(***************************************************************************)
(* Bounds of the model.                                                    *)
(***************************************************************************)
MaxNodes == 3          \* nodes of a model handed to the graph helpers
MaxPorts == 2          \* input (and output) ports of a node
MaxGlobal == 4         \* calls of AllocGlobal
MaxTemp == 3           \* TempVar handles held at once
MaxOpen == 2           \* sessions a failed CompileNode may leave open

Max(a, b) == IF a >= b THEN a ELSE b

(***************************************************************************)
(* Constants of Compiler.cpp.                                              *)
(***************************************************************************)
c_PredictFunctionName == "Predict"

\* CompilerError values thrown by Compiler.cpp; "none" is a normal return.
NoError == "none"

(***************************************************************************)
(* model::Node and model::Model (external to Compiler.cpp).                *)
(*                                                                         *)
(* A node of a model has a concrete C++ type (what typeid sees), the type  *)
(* name it reports through GetRuntimeTypeName, and the nodes it reads      *)
(* from.  Every InputNode<T> instantiation reports the name "Input".       *)
(***************************************************************************)
NodeClasses ==
    { [type |-> "InputNode<double>",   name |-> "Input"],
      [type |-> "InputNode<int>",      name |-> "Input"],
      [type |-> "InputNode<bool>",     name |-> "Input"],
      [type |-> "ConstantNode",        name |-> "ConstantNode"],
      [type |-> "BinaryOperationNode", name |-> "BinaryOperationNode"],
      [type |-> "OutputNode",          name |-> "UnregisteredKind"] }

TypeNames == {c.name : c \in NodeClasses}

\* The dependencies of the nodes of an n-node graph: node i reads from
\* earlier nodes only (the graph is acyclic).
RECURSIVE DepSeqs(_)
DepSeqs(n) ==
    IF n = 0 THEN { <<>> }
    ELSE { Append(s, d) : s \in DepSeqs(n - 1), d \in SUBSET (1..(n - 1)) }

\* The arrangements of 1..n.
RECURSIVE Arrangements(_)
Arrangements(n) ==
    IF n = 0 THEN { <<>> }
    ELSE { SubSeq(o, 1, k) \o <<n>> \o SubSeq(o, k + 1, n - 1) :
             o \in Arrangements(n - 1), k \in 0..(n - 1) }

PositionOf(s, x) == CHOOSE i \in 1..Len(s) : s[i] = x

\* The orders in which Model::Visit may call the visitor: every node once,
\* a node only after the nodes it depends on.
VisitOrders(deps) ==
    { o \in Arrangements(Len(deps)) :
        \A i \in 1..Len(deps) : \A d \in deps[i] :
            PositionOf(o, d) < PositionOf(o, i) }

\* The model of the nodes of classes cls[1..n], wired as deps says and
\* visited in order o.
MakeModel(cls, deps, o) ==
    [nodes |-> [i \in 1..Len(deps) |-> [type |-> cls[i].type,
                                        name |-> cls[i].name,
                                        deps |-> deps[i]]],
     order |-> o]

ModelsOfSize(n) ==
    UNION { { MakeModel(cls, deps, o) :
                cls \in [1..n -> NodeClasses], o \in VisitOrders(deps) } :
            deps \in DepSeqs(n) }

EmptyModel == [nodes |-> <<>>, order |-> <<>>]

\* An input A and a constant B feeding a binary operation C.
ScenarioModel ==
    MakeModel(<< [type |-> "InputNode<double>", name |-> "Input"],
                 [type |-> "ConstantNode", name |-> "ConstantNode"],
                 [type |-> "BinaryOperationNode", name |-> "BinaryOperationNode"] >>,
              << {}, {}, {1, 2} >>, <<1, 2, 3>>)

\* The models handed to CompileModel: the model without nodes, every model
\* of one node, and the scenario.
SessionModels == ModelsOfSize(0) \cup ModelsOfSize(1) \cup {ScenarioModel}

NodeIds(m) == 1..Len(m.nodes)

\* Model::Visit: the node ids in the order the visitor is called.
Visit(m) == m.order

\* typeid(node)
TypeId(m, id) == m.nodes[id].type

\* Node::GetDependentNodes: the nodes that read this node's output.
GetDependentNodes(m, id) == { j \in NodeIds(m) : id \in m.nodes[j].deps }

(***************************************************************************)
(* ModelEx: the graph helpers.                                             *)
(***************************************************************************)
IsLeafNode(m, id) == Cardinality(GetDependentNodes(m, id)) = 0

\* The lambda findNodes of CollectInputNodes (and, unused, of
\* CollectOutputNodes).
findNodes(m, id) ==
    \/ TypeId(m, id) = "InputNode<double>"
    \/ TypeId(m, id) = "InputNode<int>"

\* The predicate is handed over as a function from the model's nodes to
\* BOOLEAN; the visitor appends the nodes it holds for.
CollectNodes(m, predicate) ==
    SelectSeq(Visit(m), LAMBDA id : predicate[id])

CollectInputNodes(m) ==
    CollectNodes(m, [id \in NodeIds(m) |-> findNodes(m, id)])

\* A slip of the kind the unused lambda invites: the outputs collected with
\* findNodes.
CollectOutputNodesByType(m) ==
    CollectNodes(m, [id \in NodeIds(m) |-> findNodes(m, id)])

CollectOutputNodes(m) ==
    CollectNodes(m, [id \in NodeIds(m) |-> IsLeafNode(m, id)])

(***************************************************************************)
(* Ports and the nodes handed to GetNodeType and the Verify functions: a   *)
(* reported type name and the types of the ordered input and output ports. *)
(***************************************************************************)
PortTypes == {"Real", "Integer", "Boolean"}

RECURSIVE PortSeqs(_)
PortSeqs(n) ==
    IF n = 0 THEN { <<>> }
    ELSE PortSeqs(n - 1) \cup
         { Append(s, t) : s \in { q \in PortSeqs(n - 1) : Len(q) = n - 1 },
                          t \in PortTypes }

PortNodes ==
    { [name |-> nm, inputPorts |-> ip, outputPorts |-> op] :
        nm \in TypeNames, ip \in PortSeqs(MaxPorts), op \in PortSeqs(MaxPorts) }

NoNode == [name |-> "ConstantNode", inputPorts |-> <<>>, outputPorts |-> <<>>]

GetRuntimeTypeName(n) == n.name
GetInputPorts(n) == n.inputPorts
GetOutputPorts(n) == n.outputPorts

\* The range-for of the Verify functions from port i on: the error thrown
\* at the first port whose type differs, NoError when the loop runs out.
RECURSIVE VerifyPorts(_, _, _, _)
VerifyPorts(ports, type, i, error) ==
    IF i > Len(ports) THEN NoError
    ELSE IF ports[i] # type THEN error
    ELSE VerifyPorts(ports, type, i + 1, error)

\* A slip of the copy-and-paste kind: the input check scanning the
\* output ports.
VerifyInputTypeOfOutputs(n, type) ==
    VerifyPorts(GetOutputPorts(n), type, 1, "inputPortTypeNotSupported")

VerifyInputType(n, type) ==
    VerifyPorts(GetInputPorts(n), type, 1, "inputPortTypeNotSupported")

VerifyOutputType(n, type) ==
    VerifyPorts(GetOutputPorts(n), type, 1, "outputPortTypeNotSupported")

(***************************************************************************)
(* The node type map.                                                      *)
(***************************************************************************)
\* A table with two of its entries crossed.
InitSupportedNodeTypesCrossed ==
    << <<"Input", "input">>,
       <<"ConstantNode", "binaryOp">>,
       <<"BinaryOperationNode", "constant">> >>

InitSupportedNodeTypes ==
    << <<"Input", "input">>,
       <<"ConstantNode", "constant">>,
       <<"BinaryOperationNode", "binaryOp">> >>

\* The map's Get: the NodeType of the first pair with that name, the
\* not-supported error when there is none.
TypeMapGet(map, name) ==
    IF \E i \in 1..Len(map) : map[i][1] = name
    THEN [err |-> NoError,
          val |-> map[CHOOSE i \in 1..Len(map) :
                        /\ map[i][1] = name
                        /\ \A j \in 1..(i - 1) : map[j][1] # name][2]]
    ELSE [err |-> "notSupported", val |-> "none"]

GetNodeType(map, n) == TypeMapGet(map, GetRuntimeTypeName(n))

(***************************************************************************)
(* The temp variable allocator behind AllocTemp and FreeTemp.              *)
(***************************************************************************)
EmptyPool == [next |-> 0, free |-> {}]

\* The outcomes of Alloc: any released slot when there is one, a fresh slot
\* otherwise.
TempVarAlloc(pool) ==
    IF pool.free # {}
    THEN { [var |-> v, pool |-> [pool EXCEPT !.free = @ \ {v}]] : v \in pool.free }
    ELSE { [var |-> pool.next, pool |-> [pool EXCEPT !.next = @ + 1]] }

TempVarFree(pool, var) == [pool EXCEPT !.free = @ \cup {var}]

(***************************************************************************)
(* Sessions: the backend's BeginMain and EndMain bracket the emitted       *)
(* entry-point function.                                                   *)
(***************************************************************************)
BeginMain(open, functionName) == Append(open, functionName)
EndMain(open) == SubSeq(open, 1, Len(open) - 1)

\* DataNode::Type() values; Compiler.cpp names only Literal.
DataNodeTypes == {"Literal", "Variable", "Operation"}

(***************************************************************************)
(* The state after Compiler::Compiler().                                   *)
(***************************************************************************)
GlobalVarsInit == 0

NoCall == [op |-> "none", err |-> NoError, idle |-> TRUE, events |-> <<>>]

Constructed ==
    /\ _nodeTypes = InitSupportedNodeTypes
    /\ _inputs = <<>>
    /\ _outputs = <<>>
    /\ _globalVars = GlobalVarsInit
    /\ _tempVars = EmptyPool
    /\ sessions = <<>>
    /\ live = EmptyBag
    /\ highWater = 0
    /\ globalLog = <<>>
    /\ peak = 0
    /\ ret = NoCall

Init ==
    /\ Constructed
    /\ model = EmptyModel
    /\ node = NoNode

(***************************************************************************)
(* The member functions of Compiler.                                       *)
(***************************************************************************)
AllocTemp ==
    /\ BagCardinality(live) < MaxTemp
    /\ \E r \in TempVarAlloc(_tempVars) :
          /\ _tempVars' = r.pool
          /\ live' = live (+) SetToBag({r.var})
          /\ highWater' = Max(highWater, BagCardinality(live) + 1)
          /\ ret' = [op |-> "AllocTemp", err |-> NoError,
                     idle |-> (sessions = <<>>), events |-> <<>>, val |-> r.var,
                     pool |-> _tempVars]
    /\ UNCHANGED <<_nodeTypes, _inputs, _outputs, _globalVars, sessions,
                   model, node, globalLog, peak>>

\* FreeTemp giving the handle up without handing the slot back to the
\* allocator.
FreeTempLeak(var) ==
    /\ BagIn(var, live)
    /\ live' = live (-) SetToBag({var})
    /\ ret' = [op |-> "FreeTemp", err |-> NoError,
               idle |-> (sessions = <<>>), events |-> <<>>, arg |-> var]
    /\ UNCHANGED <<_nodeTypes, _inputs, _outputs, _globalVars, _tempVars,
                   sessions, model, node, highWater, globalLog, peak>>

\* The caller frees a handle it holds: freeing any other is a violation of
\* the allocator's contract, not a call the model makes.
FreeTemp(var) ==
    /\ BagIn(var, live)
    /\ _tempVars' = TempVarFree(_tempVars, var)
    /\ live' = live (-) SetToBag({var})
    /\ ret' = [op |-> "FreeTemp", err |-> NoError,
               idle |-> (sessions = <<>>), events |-> <<>>, arg |-> var]
    /\ UNCHANGED <<_nodeTypes, _inputs, _outputs, _globalVars, sessions,
                   model, node, highWater, globalLog, peak>>

\* AllocGlobal returning the counter as it was before the increment.
AllocGlobalPostIncrement ==
    /\ Len(globalLog) < MaxGlobal
    /\ _globalVars' = _globalVars + 1
    /\ globalLog' = Append(globalLog, _globalVars)
    /\ ret' = [op |-> "AllocGlobal", err |-> NoError,
               idle |-> (sessions = <<>>), events |-> <<>>, val |-> _globalVars]
    /\ UNCHANGED <<_nodeTypes, _inputs, _outputs, _tempVars, sessions,
                   model, node, live, highWater, peak>>

AllocGlobal ==
    /\ Len(globalLog) < MaxGlobal
    /\ _globalVars' = _globalVars + 1
    /\ globalLog' = Append(globalLog, _globalVars')
    /\ ret' = [op |-> "AllocGlobal", err |-> NoError,
               idle |-> (sessions = <<>>), events |-> <<>>, val |-> _globalVars']
    /\ UNCHANGED <<_nodeTypes, _inputs, _outputs, _tempVars, sessions,
                   model, node, live, highWater, peak>>

\* CompileModel without its EndMain.
CompileModelNoEnd(m) ==
    /\ Len(sessions) < MaxOpen
    /\ model' = m
    /\ _inputs' = CollectInputNodes(m)
    /\ _outputs' = CollectOutputNodes(m)
    /\ sessions' = BeginMain(sessions, c_PredictFunctionName)
    /\ peak' = Max(peak, Len(sessions) + 1)
    /\ ret' = [op |-> "CompileModel", err |-> NoError,
               idle |-> (sessions = <<>>),
               events |-> << <<"BeginMain", c_PredictFunctionName>> >>]
    /\ UNCHANGED <<_nodeTypes, _globalVars, _tempVars, node, live,
                   highWater, globalLog>>

CompileModel(m) ==
    LET begun == BeginMain(sessions, c_PredictFunctionName)
    IN  /\ model' = m
        /\ _inputs' = CollectInputNodes(m)
        /\ _outputs' = CollectOutputNodes(m)
        /\ sessions' = EndMain(begun)
        /\ peak' = Max(peak, Len(begun))
        /\ ret' = [op |-> "CompileModel", err |-> NoError,
                   idle |-> (sessions = <<>>),
                   events |-> << <<"BeginMain", c_PredictFunctionName>>,
                                 <<"EndMain", begun[Len(begun)]>> >>]
        /\ UNCHANGED <<_nodeTypes, _globalVars, _tempVars, node, live,
                       highWater, globalLog>>

\* The backend's Compile(LiteralNode&): it emits code and does not throw.
Compile(open) == open

CompileNode(type) ==
    LET begun == BeginMain(sessions, c_PredictFunctionName)
    IN  /\ peak' = Max(peak, Len(begun))
        /\ IF type = "Literal"
           THEN /\ sessions' = EndMain(Compile(begun))
                /\ ret' = [op |-> "CompileNode", err |-> NoError,
                           idle |-> (sessions = <<>>),
                           events |-> << <<"BeginMain", c_PredictFunctionName>>,
                                         <<"EndMain", begun[Len(begun)]>> >>,
                           arg |-> type]
           ELSE \* throw new CompilerException(CompilerError::notSupported):
                \* the statements after the switch are not reached
                /\ Len(sessions) < MaxOpen
                /\ sessions' = begun
                /\ ret' = [op |-> "CompileNode", err |-> "notSupported",
                           idle |-> (sessions = <<>>),
                           events |-> << <<"BeginMain", c_PredictFunctionName>> >>,
                           arg |-> type]
        /\ UNCHANGED <<_nodeTypes, _inputs, _outputs, _globalVars, _tempVars,
                       model, node, live, highWater, globalLog>>

Reset ==
    /\ ret' = [op |-> "Reset", err |-> NoError,
               idle |-> (sessions = <<>>), events |-> <<>>]
    /\ UNCHANGED <<_nodeTypes, _inputs, _outputs, _globalVars, _tempVars,
                   sessions, model, node, live, highWater, globalLog, peak>>

Next ==
    \/ AllocTemp
    \/ \E var \in 0..MaxTemp : FreeTemp(var)
    \/ AllocGlobal
    \/ \E m \in SessionModels : CompileModel(m)
    \/ \E type \in DataNodeTypes : CompileNode(type)
    \/ Reset

Spec == Init /\ [][Next]_vars

(***************************************************************************)
(* The graph helpers applied to every model of at most MaxNodes nodes.     *)
(***************************************************************************)
InitAnalyzer ==
    /\ Constructed
    /\ \E n \in 0..MaxNodes : \E deps \in DepSeqs(n) :
          \E cls \in [1..n -> NodeClasses] : \E o \in VisitOrders(deps) :
             model = MakeModel(cls, deps, o)
    /\ node = NoNode

Returns(call) ==
    /\ ret' = call
    /\ UNCHANGED <<_nodeTypes, _inputs, _outputs, _globalVars, _tempVars,
                   sessions, model, node, live, highWater, globalLog, peak>>

CallCollectInputNodes ==
    Returns([op |-> "CollectInputNodes", err |-> NoError, idle |-> TRUE,
             events |-> <<>>, val |-> CollectInputNodes(model)])

CallCollectOutputNodes ==
    Returns([op |-> "CollectOutputNodes", err |-> NoError, idle |-> TRUE,
             events |-> <<>>, val |-> CollectOutputNodes(model)])

NextAnalyzer ==
    \/ CallCollectInputNodes
    \/ CallCollectOutputNodes

SpecAnalyzer == InitAnalyzer /\ [][NextAnalyzer]_vars

(***************************************************************************)
(* GetNodeType and the Verify functions applied to every node of at most   *)
(* MaxPorts input and MaxPorts output ports, on a constructed Compiler.    *)
(***************************************************************************)
InitNode ==
    /\ Constructed
    /\ model = EmptyModel
    /\ node \in PortNodes

CallGetNodeType ==
    LET r == GetNodeType(_nodeTypes, node)
    IN  Returns([op |-> "GetNodeType", err |-> r.err, idle |-> TRUE,
                 events |-> <<>>, val |-> r.val])

CallVerifyInputType(type) ==
    Returns([op |-> "VerifyInputType", err |-> VerifyInputType(node, type),
             idle |-> TRUE, events |-> <<>>, arg |-> type])

CallVerifyOutputType(type) ==
    Returns([op |-> "VerifyOutputType", err |-> VerifyOutputType(node, type),
             idle |-> TRUE, events |-> <<>>, arg |-> type])

NextNode ==
    \/ CallGetNodeType
    \/ \E type \in PortTypes : CallVerifyInputType(type)
    \/ \E type \in PortTypes : CallVerifyOutputType(type)

SpecNode == InitNode /\ [][NextNode]_vars

(***************************************************************************)
(* The properties.                                                         *)
(***************************************************************************)

\* C1: a CompileModel call on a Compiler with no session open, whatever the
\* model (a model without nodes and an empty output set included), stores
\* the input and the output nodes the graph helpers collect, begins exactly
\* one session named "Predict" and then ends that session, throws nothing,
\* and returns with no session open.
C1_CompileModelOnIdle ==
    (ret.op = "CompileModel" /\ ret.idle) =>
        /\ ret.err = "none"
        /\ ret.events = << <<"BeginMain", "Predict">>, <<"EndMain", "Predict">> >>
        /\ sessions = <<>>
        /\ _inputs = CollectInputNodes(model)
        /\ _outputs = CollectOutputNodes(model)

\* C1's case: CompileModel has returned from a call made with no session
\* open on the model without nodes, and the stored output set is empty.
C1_Witness ==
    /\ ret.op = "CompileModel"
    /\ ret.idle
    /\ model = EmptyModel
    /\ _outputs = <<>>

\* C2: a CompileNode call on a Compiler with no session open either
\* succeeds and returns with the session ended, or fails with the
\* not-supported error for a node that is not a literal and then too
\* returns with no session open.
C2_CompileNodeAllOrNothing ==
    (ret.op = "CompileNode" /\ ret.idle) =>
        \/ ret.err = "none" /\ sessions = <<>>
        \/ ret.err = "notSupported" /\ ret.arg # "Literal" /\ sessions = <<>>

\* C3: at most one session is open at any time: no session is begun while
\* another is open, neither at the return of a call nor inside one.
C3_AtMostOneSession ==
    /\ Len(sessions) <= 1
    /\ peak <= 1

\* C4: the n-th call of AllocGlobal returns n, whatever calls are made in
\* between: the values returned start at 1, increase strictly and never
\* repeat.
C4_PersistentIds ==
    /\ \A i \in 1..Len(globalLog) : globalLog[i] = i
    /\ ret.op = "AllocGlobal" => ret.val = Len(globalLog)

\* C4's case: the last of MaxGlobal AllocGlobal calls has returned, on a
\* Compiler that has compiled a model with nodes, has a session left open
\* by a failed CompileNode and has handed out temp variables.
C4_Witness ==
    /\ ret.op = "AllocGlobal"
    /\ Len(globalLog) = MaxGlobal
    /\ model # EmptyModel
    /\ sessions # <<>>
    /\ highWater > 0

\* C5: when every handle freed is one the caller holds, AllocTemp returns a
\* released slot whenever there is one and mints a slot only otherwise, so
\* the slots minted never outnumber the handles held at once, and no two
\* handles held name the same slot.
C5_ScratchReuse ==
    /\ _tempVars.next <= highWater
    /\ \A v \in BagToSet(live) : CopiesIn(v, live) = 1
    /\ ret.op = "AllocTemp" =>
          IF ret.pool.free # {}
          THEN ret.val \in ret.pool.free /\ _tempVars.next = ret.pool.next
          ELSE ret.val = ret.pool.next /\ _tempVars.next = ret.pool.next + 1

\* C5's case: MaxTemp handles were allocated, the first slot minted was
\* released and AllocTemp has just handed it out again, so that MaxTemp
\* handles are held once more and MaxTemp slots were minted.
C5_Witness ==
    /\ ret.op = "AllocTemp"
    /\ ret.pool.free # {}
    /\ ret.val = 0
    /\ BagCardinality(live) = MaxTemp
    /\ _tempVars.next = MaxTemp

\* C6: after Reset the session-scoped state is that of a new Compiler: no
\* input and no output nodes are stored, as before the first CompileModel,
\* and the node type map is what it was.  (The temp variable pool, which
\* the claim names too, is the allocator's own state and is left aside.)
C6_ResetClears ==
    ret.op = "Reset" =>
        /\ _inputs = <<>>
        /\ _outputs = <<>>
        /\ _nodeTypes = InitSupportedNodeTypes

\* C7: a node of the model is among the nodes CollectInputNodes returns
\* exactly when the node type map gives its type name the type input.
C7_InputsByRegistry ==
    ret.op = "CollectInputNodes" =>
        \A id \in NodeIds(model) :
            (\E k \in 1..Len(ret.val) : ret.val[k] = id)
                <=> GetNodeType(_nodeTypes, model.nodes[id]) =
                        [err |-> "none", val |-> "input"]

\* C8: a node of the model is among the nodes CollectOutputNodes returns
\* exactly when no node of the model reads from it; the nodes returned are
\* returned once each, in the order Visit reaches them.
C8_OutputsAreLeaves ==
    ret.op = "CollectOutputNodes" =>
        /\ \A id \in NodeIds(model) :
              (\E k \in 1..Len(ret.val) : ret.val[k] = id)
                  <=> ~ \E j \in NodeIds(model) : id \in model.nodes[j].deps
        /\ \A k, l \in 1..Len(ret.val) :
              k < l => PositionOf(model.order, ret.val[k])
                         < PositionOf(model.order, ret.val[l])

\* C8's case: CollectOutputNodes has returned two of the three nodes of a
\* model, the third being read by another node, and Visit does not reach
\* the nodes in the order of their ids.
C8_Witness ==
    /\ ret.op = "CollectOutputNodes"
    /\ Len(model.nodes) = 3
    /\ Len(ret.val) = 2
    /\ ret.val[1] > ret.val[2]

\* C9: VerifyInputType throws the input-port error exactly when some input
\* port of the node has another type than the expected one; it returns
\* normally otherwise, in particular for a node without input ports, and
\* the output ports play no part.
C9_VerifyInputType ==
    ret.op = "VerifyInputType" =>
        /\ ret.err \in {"none", "inputPortTypeNotSupported"}
        /\ ret.err = "inputPortTypeNotSupported"
              <=> \E i \in 1..Len(node.inputPorts) : node.inputPorts[i] # ret.arg
        /\ node.inputPorts = <<>> => ret.err = "none"

\* C9's case: VerifyInputType has thrown for a node whose first input port
\* has the expected type, whose second has not, and whose output ports all
\* have the expected type.
C9_Witness ==
    /\ ret.op = "VerifyInputType"
    /\ ret.err = "inputPortTypeNotSupported"
    /\ Len(node.inputPorts) = 2
    /\ node.inputPorts[1] = ret.arg
    /\ node.inputPorts[2] # ret.arg
    /\ node.outputPorts = <<ret.arg, ret.arg>>

\* C10: on a new Compiler GetNodeType returns input for the type name
\* "Input", constant for "ConstantNode" and binaryOp for
\* "BinaryOperationNode", and throws the not-supported error for a name
\* that is not registered.
C10_Lookup ==
    ret.op = "GetNodeType" =>
        /\ node.name = "Input" => ret.err = "none" /\ ret.val = "input"
        /\ node.name = "ConstantNode" => ret.err = "none" /\ ret.val = "constant"
        /\ node.name = "BinaryOperationNode" =>
              ret.err = "none" /\ ret.val = "binaryOp"
        /\ node.name \notin {"Input", "ConstantNode", "BinaryOperationNode"} =>
              ret.err = "notSupported"

\* C10's case: GetNodeType has thrown for a node that reports the name
\* "UnregisteredKind".
C10_Witness ==
    /\ ret.op = "GetNodeType"
    /\ node.name = "UnregisteredKind"
    /\ ret.err = "notSupported"

====
